---- MODULE Spec2Model ----
(***************************************************************************)
(* A model of the Chidamber & Kemerer metrics engine of PythonCKMetrics    *)
(* (src/src/ck_metrics.py): the class table, the inheritance graph and the *)
(* class-to-file index built by CKMetrics._process_ast, and the metric     *)
(* calculators run by CKMetrics.calculate_metrics; and of the aggregation  *)
(* of the metrics of a project (src/src/combine.py).                       *)
(*                                                                         *)
(* class_filter is <<>> for None and <<S>> for a list of the names S.      *)
(* parsed holds, by class name, the class definition last found in the     *)
(* files parsed so far, printed the files reported on standard output as   *)
(* having a syntax error.  result is <<>> until calculate_metrics returns  *)
(* and <<m>> once it has returned m; aggregated likewise for               *)
(* get_aggregated_metrics.                                                 *)
(***************************************************************************)
EXTENDS Integers, Sequences, FiniteSets, TLC

VARIABLES classes, inheritance_graph, file_paths, class_filter, parsed,
          printed, result, aggregated, ndefs

vars == <<classes, inheritance_graph, file_paths, class_filter, parsed,
          printed, result, aggregated, ndefs>>

(***************************************************************************)
(* Bounds of the model.                                                    *)
(***************************************************************************)
\* class definitions processed in one run
MaxDefs == 3
\* base expressions of one class definition
MaxBases == 2
\* methods of a class in the cohesion inputs
MaxMethods == 6
\* methods of a class in the coupling inputs
MaxItems == 2
\* largest cyclomatic complexity a method of the coupling inputs has
MaxComplexity == 2
\* operands of a boolean operation
MaxOperands == 3
\* case arms of a match statement
MaxCases == 2
\* filter clauses of one generator of a comprehension
MaxIfs == 2
\* nodes held by the statement of the complexity inputs
MaxChildren == 2

(***************************************************************************)
(* Helpers.                                                                *)
(***************************************************************************)
Range(s) == {s[i] : i \in DOMAIN s}

EmptyMap == [x \in {} |-> {}]

Put(f, k, v) == [x \in (DOMAIN f) \cup {k} |-> IF x = k THEN v ELSE f[x]]

Get(f, k, default) == IF k \in DOMAIN f THEN f[k] ELSE default

MaxOf(S) == CHOOSE m \in S : \A n \in S : n <= m

MinOf(S) == CHOOSE m \in S : \A n \in S : m <= n

SeqsUpTo(S, n) == UNION {[1..k -> S] : k \in 0..n}

RECURSIVE Gcd(_, _)
Gcd(a, b) == IF b = 0 THEN a ELSE Gcd(b, a % b)

(***************************************************************************)
(* The syntax tree handed over by ast.parse, as far as the engine reads    *)
(* it: expressions, the statements of a class body, class definitions.     *)
(***************************************************************************)
Name(id) == [kind |-> "Name", id |-> id, attr |-> "", vkind |-> "", vid |-> ""]

\* value.attr where value is the bare name vid
Attribute(vid, attr) ==
    [kind |-> "Attribute", id |-> "", attr |-> attr, vkind |-> "Name", vid |-> vid]

\* value.attr where value is not a bare name (a call, another attribute, ...)
AttributeOf(attr) ==
    [kind |-> "Attribute", id |-> "", attr |-> attr, vkind |-> "Other", vid |-> ""]

\* an expression that is neither a name nor an attribute (a subscript, a call)
OtherExpr == [kind |-> "Other", id |-> "", attr |-> "", vkind |-> "", vid |-> ""]

Call(func) == [kind |-> "Call", func |-> func]

Expr(e) == [kind |-> "Expr", func |-> e]

\* the target e of an assignment inside a method (e = ...), which
\* MethodVisitor reaches as any other expression node
Store(e) == [kind |-> "Store", func |-> e]

\* a method: nodes are the call and attribute nodes of its body, as
\* MethodVisitor reads them, body its statements, as ComplexityVisitor
\* reads them
FunctionDef(name, nodes, body) ==
    [kind |-> "FunctionDef", name |-> name, nodes |-> nodes,
     body |-> body, targets |-> <<>>]

Assign(targets) ==
    [kind |-> "Assign", name |-> "", nodes |-> {}, body |-> <<>>,
     targets |-> targets]

AnnAssign(target) ==
    [kind |-> "AnnAssign", name |-> "", nodes |-> {}, body |-> <<>>,
     targets |-> <<target>>]

Pass == [kind |-> "Pass", name |-> "", nodes |-> {}, body |-> <<>>,
         targets |-> <<>>]

ClassDef(name, bases, body) == [name |-> name, bases |-> bases, body |-> body]

(***************************************************************************)
(* ClassInfo: the record kept for one class.                               *)
(***************************************************************************)
ClassInfo(name, bases) ==
    [name |-> name, bases |-> bases, methods |-> {}, attributes |-> {},
     method_calls |-> EmptyMap, method_attrs |-> EmptyMap,
     called_classes |-> {}, method_complexity |-> EmptyMap]

(***************************************************************************)
(* networkx.DiGraph, as far as the engine uses it.                         *)
(***************************************************************************)
DiGraph == [nodes |-> {}, edges |-> {}]

add_node(G, n) == [nodes |-> G.nodes \cup {n}, edges |-> G.edges]

\* as add_edge, the source left out of the nodes
add_edge_target_only(G, u, v) ==
    [nodes |-> G.nodes \cup {v}, edges |-> G.edges \cup {<<u, v>>}]

\* add_edge adds both end points as nodes when they are not nodes yet
add_edge(G, u, v) == [nodes |-> G.nodes \cup {u, v}, edges |-> G.edges \cup {<<u, v>>}]

in_degree(G, n) == Cardinality({e \in G.edges : e[2] = n})

successors(G, n) == {e[2] : e \in {d \in G.edges : d[1] = n}}

\* the depth-first enumeration of nx.all_simple_paths: every extension of
\* path by nodes not yet on it that ends in target
RECURSIVE simple_paths_from(_, _, _)
simple_paths_from(G, path, target) ==
    IF path[Len(path)] = target
    THEN {path}
    ELSE UNION {simple_paths_from(G, Append(path, n), target) :
                  n \in successors(G, path[Len(path)]) \ Range(path)}

\* source = target yields the one-node path (networkx >= 3.3) or nothing
\* (older releases); _calculate_dit gets depth 0 from either
all_simple_paths(G, source, target) == simple_paths_from(G, <<source>>, target)

(***************************************************************************)
(* ComplexityVisitor: the cyclomatic complexity of a method.  A node of    *)
(* the body keeps what the visitor reads of it: its kind, the operands of  *)
(* a boolean operation, the case arms of a match statement, the number of  *)
(* filter clauses of each generator of a comprehension, and the nodes      *)
(* nested in it, which generic_visit walks.                                *)
(***************************************************************************)
Node(kind, children) ==
    [kind |-> kind, values |-> 0, cases |-> 0, generators |-> <<>>,
     children |-> children]

\* a and b and ...: values is the number of operands
BoolOp(values, children) ==
    [kind |-> "BoolOp", values |-> values, cases |-> 0, generators |-> <<>>,
     children |-> children]

\* match ...: cases is the number of case arms
Match(cases, children) ==
    [kind |-> "Match", values |-> 0, cases |-> cases, generators |-> <<>>,
     children |-> children]

\* a comprehension of kind ListComp, DictComp, SetComp or GeneratorExp;
\* generators[i] is len(generator.ifs) of its i-th generator
Comprehension(kind, generators, children) ==
    [kind |-> kind, values |-> 0, cases |-> 0, generators |-> generators,
     children |-> children]

RECURSIVE SumSeq(_)
SumSeq(s) == IF s = <<>> THEN 0 ELSE Head(s) + SumSeq(Tail(s))

\* as visit_increment, a boolean operation counting 1 whatever its operands
visit_increment_per_operator(node) ==
    IF node.kind \in {"If", "For", "AsyncFor", "While", "ExceptHandler", "IfExp",
                      "BoolOp"}
    THEN 1
    ELSE IF node.kind \in {"ListComp", "DictComp", "SetComp", "GeneratorExp"}
    THEN SumSeq(node.generators)
    ELSE IF node.kind = "Match" THEN 1 + node.cases
    ELSE 0

\* as visit_increment, a lambda counting as a branch
visit_increment_lambda(node) ==
    IF node.kind \in {"If", "For", "AsyncFor", "While", "ExceptHandler", "IfExp",
                      "Lambda"}
    THEN 1
    ELSE IF node.kind = "BoolOp" THEN node.values - 1
    ELSE IF node.kind \in {"ListComp", "DictComp", "SetComp", "GeneratorExp"}
    THEN SumSeq(node.generators)
    ELSE IF node.kind = "Match" THEN 1 + node.cases
    ELSE 0

\* what the visit_ method of the node's kind adds to self.complexity
visit_increment(node) ==
    IF node.kind \in {"If", "For", "AsyncFor", "While", "ExceptHandler", "IfExp"}
    THEN 1
    ELSE IF node.kind = "BoolOp" THEN node.values - 1
    ELSE IF node.kind \in {"ListComp", "DictComp", "SetComp", "GeneratorExp"}
    THEN SumSeq(node.generators)
    ELSE IF node.kind = "Match" THEN 1 + node.cases
    ELSE 0

\* visit: the increment of the node, then generic_visit over what it holds
RECURSIVE visit_complexity(_)
visit_complexity(node) ==
    visit_increment(node)
    + SumSeq([i \in DOMAIN node.children |-> visit_complexity(node.children[i])])

\* ComplexityVisitor().visit(item) for a method item; the base value is 1
ComplexityVisitor(item) ==
    1 + SumSeq([i \in DOMAIN item.body |-> visit_complexity(item.body[i])])

\* a body of the given complexity: complexity - 1 if statements in a row
Branches(complexity) == [i \in 1..(complexity - 1) |-> Node("If", <<>>)]

(***************************************************************************)
(* MethodVisitor: the names called, the attributes read or written through *)
(* self, and the bare names used as the receiver of a qualified call.      *)
(* The body of a method is the set of its call and attribute nodes.        *)
(***************************************************************************)
\* visit_Call: the name added to method_calls
visit_Call_method_calls(node) ==
    IF node.func.kind = "Name" THEN {node.func.id}
    ELSE IF node.func.kind = "Attribute" THEN {node.func.attr}
    ELSE {}

\* visit_Call: the receiver added to classes
visit_Call_classes(node) ==
    IF node.func.kind = "Attribute" /\ node.func.vkind = "Name"
    THEN {node.func.vid}
    ELSE {}

\* visit_Attribute; generic_visit reaches it for the func of a call too
visit_Attribute(e) ==
    IF e.kind = "Attribute" /\ e.vkind = "Name" /\ e.vid = "self"
    THEN {e.attr}
    ELSE {}

MethodVisitor(nodes) ==
    [method_calls |-> UNION {visit_Call_method_calls(n) : n \in {c \in nodes : c.kind = "Call"}},
     attributes   |-> UNION {visit_Attribute(n.func) : n \in nodes},
     classes      |-> UNION {visit_Call_classes(n) : n \in {c \in nodes : c.kind = "Call"}}]

(***************************************************************************)
(* CKMetrics._process_ast, one class definition of the walk.               *)
(***************************************************************************)
_get_attribute_name(node) ==
    IF node.vkind = "Name" THEN node.vid \o "." \o node.attr ELSE node.attr

\* the bases kept: names and attributes, in the order written
RECURSIVE base_names(_)
base_names(bases) ==
    IF bases = <<>> THEN <<>>
    ELSE LET base == Head(bases) IN
         IF base.kind = "Name" THEN <<base.id>> \o base_names(Tail(bases))
         ELSE IF base.kind = "Attribute"
              THEN <<_get_attribute_name(base)>> \o base_names(Tail(bases))
              ELSE base_names(Tail(bases))

\* as add_base_edges, an edge added only from a base that is a node already
RECURSIVE add_base_edges_from_nodes(_, _, _)
add_base_edges_from_nodes(G, bases, class_name) ==
    IF bases = <<>> THEN G
    ELSE add_base_edges_from_nodes(IF Head(bases) # "object" /\ Head(bases) \in G.nodes
                                   THEN add_edge(G, Head(bases), class_name)
                                   ELSE G,
                                   Tail(bases), class_name)

\* the edges base -> class_name, 'object' skipped
RECURSIVE add_base_edges(_, _, _)
add_base_edges(G, bases, class_name) ==
    IF bases = <<>> THEN G
    ELSE add_base_edges(IF Head(bases) # "object"
                        THEN add_edge(G, Head(bases), class_name)
                        ELSE G,
                        Tail(bases), class_name)

\* the targets of a class-level assignment that name an attribute
assigned_names(targets) ==
    {targets[i].id : i \in {j \in DOMAIN targets : targets[j].kind = "Name"}}
    \cup
    {targets[i].attr : i \in {j \in DOMAIN targets :
                                 /\ targets[j].kind = "Attribute"
                                 /\ targets[j].vkind = "Name"
                                 /\ targets[j].vid = "self"}}

process_item(class_info, item) ==
    IF item.kind = "FunctionDef"
    THEN LET method_visitor == MethodVisitor(item.nodes) IN
         [class_info EXCEPT
            !.methods = @ \cup {item.name},
            !.method_calls = Put(@, item.name, method_visitor.method_calls),
            !.method_attrs = Put(@, item.name, method_visitor.attributes),
            !.called_classes = @ \cup method_visitor.classes,
            !.method_complexity = Put(@, item.name, ComplexityVisitor(item))]
    ELSE IF item.kind \in {"Assign", "AnnAssign"}
    THEN [class_info EXCEPT !.attributes = @ \cup assigned_names(item.targets)]
    ELSE class_info

RECURSIVE process_body(_, _)
process_body(class_info, body) ==
    IF body = <<>> THEN class_info
    ELSE process_body(process_item(class_info, Head(body)), Tail(body))

\* as _process_ast, without the class filter
_process_ast_unfiltered(node, file_path) ==
    LET bases == base_names(node.bases)
        class_name == node.name
    IN  /\ result = <<>>
        /\ ndefs' = ndefs + 1
        /\ parsed' = Put(parsed, class_name, node)
        /\ file_paths' = Put(file_paths, class_name, file_path)
        /\ classes' = Put(classes, class_name,
                          process_body(ClassInfo(class_name, bases), node.body))
        /\ inheritance_graph' =
               add_base_edges(add_node(inheritance_graph, class_name), bases, class_name)
        /\ UNCHANGED <<class_filter, printed, result, aggregated>>

_process_ast(node, file_path) ==
    LET bases == base_names(node.bases)
        class_name == node.name
    IN  /\ result = <<>>
        /\ ndefs' = ndefs + 1
        /\ parsed' = Put(parsed, class_name, node)
        /\ IF class_filter # <<>> /\ node.name \notin class_filter[1]
           THEN UNCHANGED <<classes, inheritance_graph, file_paths>>
           ELSE /\ file_paths' = Put(file_paths, class_name, file_path)
                /\ classes' = Put(classes, class_name,
                                  process_body(ClassInfo(class_name, bases), node.body))
                /\ inheritance_graph' =
                       add_base_edges(add_node(inheritance_graph, class_name),
                                      bases, class_name)
        /\ UNCHANGED <<class_filter, printed, result, aggregated>>

\* as parse_file_syntax_error, the class table emptied
parse_file_syntax_error_reset(file_path) ==
    /\ result = <<>>
    /\ printed' = printed \cup {file_path}
    /\ classes' = EmptyMap
    /\ UNCHANGED <<inheritance_graph, file_paths, class_filter, parsed,
                   result, aggregated, ndefs>>

\* parse_file on a file ast.parse rejects: SyntaxError is raised before
\* _process_ast is entered, caught, and the file is reported
parse_file_syntax_error(file_path) ==
    /\ result = <<>>
    /\ printed' = printed \cup {file_path}
    /\ UNCHANGED <<classes, inheritance_graph, file_paths, class_filter, parsed,
                   result, aggregated, ndefs>>

(***************************************************************************)
(* The metric calculators.                                                 *)
(***************************************************************************)
RECURSIVE SumOver(_, _)
SumOver(f, S) ==
    IF S = {} THEN 0
    ELSE LET x == CHOOSE y \in S : TRUE IN f[x] + SumOver(f, S \ {x})

\* as _calculate_wmc, every method counting 1
_calculate_wmc_count(class_info) == Cardinality(class_info.methods)

\* as _calculate_wmc, taking the largest complexity instead of the sum
_calculate_wmc_max(class_info) ==
    MaxOf({0} \cup {Get(class_info.method_complexity, method, 1) :
                      method \in class_info.methods})

_calculate_wmc(class_info) ==
    SumOver([method \in class_info.methods |->
                Get(class_info.method_complexity, method, 1)],
            class_info.methods)

\* the roots: the nodes of the graph without an incoming edge
graph_roots(G) == {node \in G.nodes : in_degree(G, node) = 0}

\* as _calculate_dit, taking the shortest path instead of the longest
_calculate_dit_shortest(class_name) ==
    IF class_name \notin inheritance_graph.nodes THEN 0
    ELSE LET paths == UNION {all_simple_paths(inheritance_graph, root, class_name) :
                               root \in graph_roots(inheritance_graph)}
         IN  IF paths = {} THEN 0 ELSE MinOf({Len(path) - 1 : path \in paths})

\* as _calculate_dit, counting the nodes of a path instead of its edges
_calculate_dit_nodes(class_name) ==
    IF class_name \notin inheritance_graph.nodes THEN 0
    ELSE LET paths == UNION {all_simple_paths(inheritance_graph, root, class_name) :
                               root \in graph_roots(inheritance_graph)}
         IN  MaxOf({0} \cup {Len(path) : path \in paths})

\* as _calculate_dit, the paths started from every other node, root or not
_calculate_dit_any_start(class_name) ==
    IF class_name \notin inheritance_graph.nodes THEN 0
    ELSE LET paths == UNION {all_simple_paths(inheritance_graph, root, class_name) :
                               root \in inheritance_graph.nodes \ {class_name}}
         IN  MaxOf({0} \cup {Len(path) - 1 : path \in paths})

_calculate_dit(class_name) ==
    IF class_name \notin inheritance_graph.nodes THEN 0
    ELSE LET paths == UNION {all_simple_paths(inheritance_graph, root, class_name) :
                               root \in graph_roots(inheritance_graph)}
         IN  MaxOf({0} \cup {Len(path) - 1 : path \in paths})

\* as _calculate_noc, counting the classes it inherits from
_calculate_noc_predecessors(class_name) ==
    IF class_name \notin inheritance_graph.nodes THEN 0
    ELSE Cardinality({e[1] : e \in {d \in inheritance_graph.edges : d[2] = class_name}})

_calculate_noc(class_name) ==
    IF class_name \notin inheritance_graph.nodes THEN 0
    ELSE Cardinality(successors(inheritance_graph, class_name))

\* the names coupled to the class, before they are counted
coupled_classes(class_name, class_info) ==
    LET start == Range(class_info.bases) \cup class_info.called_classes
        called == {called_class \in UNION Range(class_info.method_calls) :
                     called_class \in DOMAIN classes /\ called_class # class_name}
        attrs == {attr \in class_info.attributes :
                     attr \in DOMAIN classes /\ attr # class_name}
    IN  (start \cup called \cup attrs) \ {"object", "self"}

\* as _calculate_cbo, without removing the name self
_calculate_cbo_keep_self(class_name, class_info) ==
    Cardinality(coupled_classes(class_name, class_info) \cup
                ({"self"} \cap class_info.called_classes))

_calculate_cbo(class_name, class_info) ==
    Cardinality(coupled_classes(class_name, class_info))

special_builtins == {"super", "getattr", "setattr", "delattr", "hasattr", "type", "dir"}

\* the names of the interpreter's built-in namespace that the inputs use
built_ins ==
    special_builtins \cup {"list", "map", "range", "open", "len", "print", "object"}

\* as _is_builtin_function, without the names that always count
_is_builtin_function_plain(method_name) == method_name \in built_ins

_is_builtin_function(method_name) ==
    IF method_name \in special_builtins THEN FALSE
    ELSE IF method_name \notin built_ins THEN FALSE
    ELSE TRUE

_calculate_rfc(class_info) ==
    Cardinality(class_info.methods \cup
                {method \in UNION Range(class_info.method_calls) :
                    ~_is_builtin_function(method)})

\* as lcom4_edges, without the edges from a method to a method it calls
lcom4_edges_attrs_only(class_info) ==
    {{method1, method2} : <<method1, method2>> \in
        {p \in class_info.methods \X class_info.methods :
            /\ p[1] # p[2]
            /\ Get(class_info.method_attrs, p[1], {})
                 \cap Get(class_info.method_attrs, p[2], {}) # {}}}

\* the edges of the cohesion graph, each a set of one or two methods
lcom4_edges(class_info) ==
    {{method1, method2} : <<method1, method2>> \in
        {p \in class_info.methods \X class_info.methods :
            /\ p[1] # p[2]
            /\ Get(class_info.method_attrs, p[1], {})
                 \cap Get(class_info.method_attrs, p[2], {}) # {}}}
    \cup
    {{method1, called} : <<method1, called>> \in
        {p \in class_info.methods \X class_info.methods :
            p[2] \in Get(class_info.method_calls, p[1], {})}}

\* the connected component of the nodes in seen, by breadth-first search
RECURSIVE connected_component(_, _)
connected_component(edges, seen) ==
    LET next == seen \cup UNION {e \in edges : e \cap seen # {}}
    IN  IF next = seen THEN seen ELSE connected_component(edges, next)

RECURSIVE number_connected_components(_, _)
number_connected_components(nodes, edges) ==
    IF nodes = {} THEN 0
    ELSE LET n == CHOOSE m \in nodes : TRUE
         IN  1 + number_connected_components(
                     nodes \ connected_component(edges, {n}), edges)

_calculate_lcom4(class_info) ==
    IF class_info.methods = {} THEN 0
    ELSE number_connected_components(class_info.methods, lcom4_edges(class_info))

\* a Python float that is the quotient of two integers, den > 0: the
\* division is correctly rounded, so equal quotients are equal floats
Float(num, den) ==
    LET g == Gcd(num, den) IN [num |-> num \div g, den |-> den \div g]

\* as _calculate_normalized_lcom4, dividing by the number of methods
_calculate_normalized_lcom4_by_count(class_info, lcom4) ==
    LET method_count == Cardinality(class_info.methods)
    IN  IF method_count <= 1 THEN Float(0, 1)
        ELSE Float(lcom4 - 1, method_count)

\* as _calculate_normalized_lcom4, the quotient of LCOM4 and the number
\* of methods
_calculate_normalized_lcom4_ratio(class_info, lcom4) ==
    LET method_count == Cardinality(class_info.methods)
    IN  IF method_count <= 1 THEN Float(0, 1)
        ELSE Float(lcom4, method_count)

_calculate_normalized_lcom4(class_info, lcom4) ==
    LET method_count == Cardinality(class_info.methods)
    IN  IF method_count <= 1 THEN Float(0, 1)
        ELSE Float(lcom4 - 1, method_count - 1)

_calculate_class_metrics(class_name, class_info) ==
    LET lcom4 == _calculate_lcom4(class_info)
    IN  [wmc |-> _calculate_wmc(class_info),
         dit |-> _calculate_dit(class_name),
         noc |-> _calculate_noc(class_name),
         cbo |-> _calculate_cbo(class_name, class_info),
         rfc |-> _calculate_rfc(class_info),
         lcom4 |-> lcom4,
         lcom4_normalized |-> _calculate_normalized_lcom4(class_info, lcom4),
         methods |-> [method \in class_info.methods |->
                         [complexity |-> Get(class_info.method_complexity, method, 1)]]]

\* as project_metrics, every file entry listing every class
project_metrics_every_file ==
    LET class_summary == [class_name \in DOMAIN classes |->
                             _calculate_class_metrics(class_name, classes[class_name])]
        file_of(class_name) == Get(file_paths, class_name, "unknown")
    IN  [files |-> [file_path \in {file_of(c) : c \in DOMAIN classes} |->
                       [classes |-> class_summary, path |-> file_path]],
         class_summary |-> class_summary]

project_metrics ==
    LET class_summary == [class_name \in DOMAIN classes |->
                             _calculate_class_metrics(class_name, classes[class_name])]
        file_of(class_name) == Get(file_paths, class_name, "unknown")
    IN  [files |-> [file_path \in {file_of(c) : c \in DOMAIN classes} |->
                       [classes |-> [c \in {d \in DOMAIN classes : file_of(d) = file_path} |->
                                        class_summary[c]],
                        path |-> file_path]],
         class_summary |-> class_summary]

\* as calculate_metrics, the class table used up while it is walked
calculate_metrics_consuming ==
    /\ result' = <<project_metrics>>
    /\ classes' = EmptyMap
    /\ UNCHANGED <<inheritance_graph, file_paths, class_filter, parsed,
                   printed, aggregated, ndefs>>

calculate_metrics ==
    /\ result' = <<project_metrics>>
    /\ UNCHANGED <<classes, inheritance_graph, file_paths, class_filter, parsed,
                   printed, aggregated, ndefs>>

(***************************************************************************)
(* combine.py: the aggregation of the metrics of a project.  A number is   *)
(* the fraction [num, den] in lowest terms that Float builds (the rounding *)
(* of floating point is left out); the fraction of denominator 0 stands    *)
(* for a division that raised ZeroDivisionError.  The outcome of           *)
(* get_aggregated_metrics names the exception raised, "" when it returned. *)
(***************************************************************************)
ZeroDivisionError == [num |-> 0, den |-> 0]

FAdd(a, b) ==
    IF a.den = 0 \/ b.den = 0 THEN ZeroDivisionError
    ELSE Float(a.num * b.den + b.num * a.den, a.den * b.den)

FMul(a, b) ==
    IF a.den = 0 \/ b.den = 0 THEN ZeroDivisionError
    ELSE Float(a.num * b.num, a.den * b.den)

FDiv(a, b) ==
    IF a.den = 0 \/ b.den = 0 \/ b.num = 0 THEN ZeroDivisionError
    ELSE Float(a.num * b.den, a.den * b.num)

FLess(a, b) == a.num * b.den < b.num * a.den

\* sum(...) over a list of numbers
RECURSIVE FSum(_)
FSum(values) == IF values = <<>> THEN Float(0, 1) ELSE FAdd(Head(values), FSum(Tail(values)))

\* the elements of a set in a row, as iterating over a dict yields them;
\* no result of the aggregation depends on the order
RECURSIVE SetToSeq(_)
SetToSeq(S) ==
    IF S = {} THEN <<>>
    ELSE LET x == CHOOSE y \in S : TRUE IN <<x>> \o SetToSeq(S \ {x})

ck_metrics == <<"wmc", "dit", "noc", "cbo", "rfc", "lcom4", "lcom4_normalized">>

\* class_data[metric] as a number: lcom4_normalized is a float, the others
\* are integers
number(class_data, metric) ==
    IF metric = "lcom4_normalized" THEN class_data[metric]
    ELSE Float(class_data[metric], 1)

\* [class_data[metric] for class_data in class_metrics.values()]
metric_values(class_metrics, metric) ==
    LET names == SetToSeq(DOMAIN class_metrics)
    IN  [i \in DOMAIN names |-> number(class_metrics[names[i]], metric)]

metric_sums(class_metrics) ==
    [metric \in Range(ck_metrics) |-> FSum(metric_values(class_metrics, metric))]

\* as other_metrics, the target metric included
other_metrics_all(target_metric) == Range(ck_metrics)

other_metrics(target_metric) == {m \in Range(ck_metrics) : m # target_metric}

\* as valid_metrics, a metric of sum zero not skipped
valid_metrics_unskipped(target_metric, sums) == other_metrics(target_metric)

\* the other metrics the loop does not skip: those of a non-zero sum
valid_metrics(target_metric, sums) ==
    {m \in other_metrics(target_metric) : sums[m] # Float(0, 1)}

avg_weight(class_data, target_metric, sums) ==
    LET valid == SetToSeq(valid_metrics(target_metric, sums))
        weight_sum == FSum([i \in DOMAIN valid |->
                              FDiv(number(class_data, valid[i]), sums[valid[i]])])
        valid_metrics_count == Len(valid)
    IN  IF valid_metrics_count > 0
        THEN FDiv(weight_sum, Float(valid_metrics_count, 1))
        ELSE Float(1, 1)

combine_metrics(metrics) ==
    LET class_metrics == metrics.class_summary
        sums == metric_sums(class_metrics)
    IN  [class_name \in DOMAIN class_metrics |->
           [target_metric \in Range(ck_metrics) |->
              FMul(number(class_metrics[class_name], target_metric),
                   avg_weight(class_metrics[class_name], target_metric, sums))]]

\* statistics.mean of a list that is not empty
mean(values) == FDiv(FSum(values), Float(Len(values), 1))

\* statistics.median of a list that is not empty
median(values) ==
    LET data == SortSeq(values, FLess)
        n == Len(data)
    IN  IF n % 2 = 1 THEN data[(n \div 2) + 1]
        ELSE FDiv(FAdd(data[n \div 2], data[(n \div 2) + 1]), Float(2, 1))

\* as calculate_mean_metrics, over the weighted values
calculate_mean_metrics_weighted(metrics) ==
    LET weighted == combine_metrics(metrics)
        names == SetToSeq(DOMAIN weighted)
    IN  [metric \in Range(ck_metrics) |->
           mean([i \in DOMAIN names |-> weighted[names[i]][metric]])]

calculate_mean_metrics(metrics) ==
    [metric \in Range(ck_metrics) |->
       mean(metric_values(metrics.class_summary, metric))]

calculate_median_metrics(metrics) ==
    [metric \in Range(ck_metrics) |->
       median(metric_values(metrics.class_summary, metric))]

\* as calculate_weighted_metrics_combined, divided by the number of classes
calculate_weighted_metrics_combined_mean(weighted_metrics) ==
    LET names == SetToSeq(DOMAIN weighted_metrics)
    IN  [metric \in Range(ck_metrics) |->
           mean([i \in DOMAIN names |-> weighted_metrics[names[i]][metric]])]

calculate_weighted_metrics_combined(weighted_metrics) ==
    LET names == SetToSeq(DOMAIN weighted_metrics)
    IN  [metric \in Range(ck_metrics) |->
           FSum([i \in DOMAIN names |-> weighted_metrics[names[i]][metric]])]

\* as original_metrics, dit and noc exchanged
original_metrics_exchanged(metrics) ==
    [k \in DOMAIN metrics.class_summary |->
       [metric \in Range(ck_metrics) |->
          IF metric = "dit" THEN metrics.class_summary[k]["noc"]
          ELSE IF metric = "noc" THEN metrics.class_summary[k]["dit"]
          ELSE metrics.class_summary[k][metric]]]

\* the projection of class_summary on the seven metrics
original_metrics(metrics) ==
    [k \in DOMAIN metrics.class_summary |->
       [metric \in Range(ck_metrics) |-> metrics.class_summary[k][metric]]]

Outcome(raised, value) == [raised |-> raised, value |-> value]

\* what get_aggregated_metrics returns or raises: combine_metrics divides,
\* statistics.mean and statistics.median raise StatisticsError on an empty
\* list
get_aggregated_metrics_outcome(metrics) ==
    LET weighted_metrics == combine_metrics(metrics)
    IN  IF \E k \in DOMAIN weighted_metrics : \E m \in Range(ck_metrics) :
             weighted_metrics[k][m] = ZeroDivisionError
        THEN Outcome("ZeroDivisionError", <<>>)
        ELSE IF DOMAIN metrics.class_summary = {}
        THEN Outcome("StatisticsError", <<>>)
        ELSE Outcome("",
               [original_metrics |-> original_metrics(metrics),
                weighted_metrics |-> weighted_metrics,
                weighted_metrics_combined |->
                    calculate_weighted_metrics_combined(weighted_metrics),
                mean_metrics |-> calculate_mean_metrics(metrics),
                median_metrics |-> calculate_median_metrics(metrics)])

\* main: the metrics process_path returned are aggregated
get_aggregated_metrics ==
    /\ result # <<>>
    /\ aggregated = <<>>
    /\ aggregated' = <<get_aggregated_metrics_outcome(result[1])>>
    /\ UNCHANGED <<classes, inheritance_graph, file_paths, class_filter, parsed,
                   printed, result, ndefs>>

(***************************************************************************)
(* Natural numbers beyond the range of the model checker's integers, as    *)
(* the sequence of their digits to the base 2^15, lowest digit first and   *)
(* no zero digit on top; <<>> is 0.  They carry the 53 binary digits of a  *)
(* float and the exact sums, products and quotients before rounding.       *)
(***************************************************************************)
RECURSIVE Pow2(_)
Pow2(k) == IF k = 0 THEN 1 ELSE 2 * Pow2(k - 1)

RECURSIVE NTrim(_)
NTrim(a) ==
    IF a # <<>> /\ a[Len(a)] = 0 THEN NTrim(SubSeq(a, 1, Len(a) - 1)) ELSE a

RECURSIVE NOfInt(_)
NOfInt(n) == IF n = 0 THEN <<>> ELSE <<n % 32768>> \o NOfInt(n \div 32768)

NDigit(a, i) == IF i <= Len(a) THEN a[i] ELSE 0

NAdd(a, b) ==
    LET RECURSIVE from(_, _)
        from(i, carry) ==
            IF i > Len(a) /\ i > Len(b)
            THEN IF carry = 0 THEN <<>> ELSE <<carry>>
            ELSE LET s == NDigit(a, i) + NDigit(b, i) + carry
                 IN  <<s % 32768>> \o from(i + 1, s \div 32768)
    IN  from(1, 0)

\* a - b for a >= b
NSub(a, b) ==
    LET RECURSIVE from(_, _)
        from(i, borrow) ==
            IF i > Len(a) THEN <<>>
            ELSE LET s == a[i] - NDigit(b, i) - borrow
                 IN  IF s < 0 THEN <<s + 32768>> \o from(i + 1, 1)
                              ELSE <<s>> \o from(i + 1, 0)
    IN  NTrim(from(1, 0))

NLess(a, b) ==
    LET RECURSIVE from(_)
        from(i) == IF i = 0 THEN FALSE
                   ELSE IF a[i] # b[i] THEN a[i] < b[i]
                   ELSE from(i - 1)
    IN  IF Len(a) # Len(b) THEN Len(a) < Len(b) ELSE from(Len(a))

\* a * d for one digit d
NMulDigit(a, d) ==
    LET RECURSIVE from(_, _)
        from(i, carry) ==
            IF i > Len(a)
            THEN IF carry = 0 THEN <<>> ELSE <<carry>>
            ELSE LET s == a[i] * d + carry
                 IN  <<s % 32768>> \o from(i + 1, s \div 32768)
    IN  IF d = 0 THEN <<>> ELSE from(1, 0)

RECURSIVE NMul(_, _)
NMul(a, b) ==
    IF a = <<>> \/ b = <<>> THEN <<>>
    ELSE NAdd(NMulDigit(a, Head(b)),
              LET rest == NMul(a, Tail(b))
              IN  IF rest = <<>> THEN <<>> ELSE <<0>> \o rest)

\* a * 2^k
NShl(a, k) ==
    IF a = <<>> THEN <<>>
    ELSE [i \in 1..(k \div 15) |-> 0] \o NMulDigit(a, Pow2(k % 15))

\* a \div 2^k
NShr(a, k) ==
    LET drop == k \div 15
        low == Pow2(k % 15)
        high == Pow2(15 - (k % 15))
    IN  IF drop >= Len(a) THEN <<>>
        ELSE NTrim([i \in 1..(Len(a) - drop) |->
                      (a[i + drop] \div low) + (NDigit(a, i + drop + 1) % low) * high])

\* the number of binary digits of a
NBits(a) ==
    IF a = <<>> THEN 0
    ELSE 15 * (Len(a) - 1) + (CHOOSE k \in 1..15 : a[Len(a)] \div Pow2(k - 1) = 1)

\* binary digit k of a, digit 0 the lowest
NBitAt(a, k) == (NDigit(a, (k \div 15) + 1) \div Pow2(k % 15)) % 2

\* a % 2^k = 0
NLowZero(a, k) ==
    /\ \A i \in 1..(k \div 15) : NDigit(a, i) = 0
    /\ NDigit(a, (k \div 15) + 1) % Pow2(k % 15) = 0

\* the number of zero binary digits below the lowest one of a # 0
RECURSIVE NTrailingZeros(_)
NTrailingZeros(a) ==
    IF a[1] = 0 THEN 15 + NTrailingZeros(Tail(a))
    ELSE CHOOSE k \in 0..14 : a[1] % Pow2(k) = 0 /\ a[1] % Pow2(k + 1) # 0

\* quotient and remainder of a by one digit d, from the top digit down
NDivDigit(a, d) ==
    LET RECURSIVE from(_, _)
        from(i, rem) ==
            IF i = 0 THEN [q |-> <<>>, r |-> rem]
            ELSE LET s == rem * 32768 + a[i]
                     rest == from(i - 1, s % d)
                 IN  [q |-> Append(rest.q, s \div d), r |-> rest.r]
        d1 == from(Len(a), 0)
    IN  [q |-> NTrim(d1.q), r |-> NOfInt(d1.r)]

\* quotient, as binary digits lowest first, and remainder of a by b when
\* the remainder so far is rem and the binary digits k down to low of a
\* are still to be brought down
RECURSIVE NDivBits(_, _, _, _, _)
NDivBits(a, b, k, low, rem) ==
    IF k < low THEN [bits |-> <<>>, r |-> rem]
    ELSE CHOOSE d \in
           {LET fits == ~NLess(s, b)
                rest == NDivBits(a, b, k - 1, low, IF fits THEN NSub(s, b) ELSE s)
            IN  [bits |-> Append(rest.bits, IF fits THEN 1 ELSE 0), r |-> rest.r] :
              s \in {NAdd(NShl(rem, 1), IF NBitAt(a, k) = 1 THEN <<1>> ELSE <<>>)}} : TRUE

\* quotient q and remainder r of a by b # 0; a long divisor is divided by
\* eight binary digits of a at a time
NDivMod(a, b) ==
    LET RECURSIVE from(_, _)
        from(k, rem) ==
            IF k < 0 THEN [bits |-> <<>>, r |-> rem]
            ELSE CHOOSE d \in
                   {LET rest == from(k - 8, chunk.r)
                    IN  [bits |-> rest.bits \o chunk.bits, r |-> rest.r] :
                      chunk \in {NDivBits(a, b, k, IF k >= 8 THEN k - 7 ELSE 0, rem)}} : TRUE
        RECURSIVE digits(_)
        digits(bits) ==
            IF bits = <<>> THEN <<>>
            ELSE LET n == IF Len(bits) < 15 THEN Len(bits) ELSE 15
                 IN  <<SumSeq([i \in 1..n |-> bits[i] * Pow2(i - 1)])>>
                       \o digits(SubSeq(bits, n + 1, Len(bits)))
    IN  IF Len(b) = 1 THEN NDivDigit(a, b[1])
        ELSE LET d == from(NBits(a) - 1, <<>>)
             IN  [q |-> NTrim(digits(d.bits)), r |-> d.r]

(***************************************************************************)
(* The float of Python: an IEEE 754 binary64 number that is not negative,  *)
(* as the value m * 2^e with m odd, or m = 0 and e = 0.  The result of an  *)
(* operation is the exact result rounded to 53 binary digits, a tie to the *)
(* neighbour whose last digit is even.  The metrics of a project are far   *)
(* from the largest and the smallest binary64 number: no result overflows  *)
(* or is subnormal.                                                        *)
(***************************************************************************)
Binary64(N, e) ==
    IF N = <<>> THEN [m |-> <<>>, e |-> 0]
    ELSE LET z == NTrailingZeros(N) IN [m |-> NShr(N, z), e |-> e + z]

\* the binary64 number nearest to N * 2^e, or to a value slightly above
\* N * 2^e when inexact is set
Round(N, e, inexact) ==
    LET n == NBits(N) IN
    IF n <= 53 THEN Binary64(N, e)
    ELSE LET k == n - 53
             q == NShr(N, k)
             half == NBitAt(N, k - 1) = 1
             above == inexact \/ ~NLowZero(N, k - 1)
         IN  Binary64(IF half /\ (above \/ q[1] % 2 = 1) THEN NAdd(q, <<1>>) ELSE q,
                      e + k)

\* float(n) of an integer 0 <= n < 2^31
BOfInt(n) == Binary64(NOfInt(n), 0)

\* x + y and x * y before they are rounded
DAdd(x, y) ==
    LET e == IF x.e < y.e THEN x.e ELSE y.e
    IN  Binary64(NAdd(NShl(x.m, x.e - e), NShl(y.m, y.e - e)), e)

DMul(x, y) == Binary64(NMul(x.m, y.m), x.e + y.e)

BAdd(x, y) == LET s == DAdd(x, y) IN Round(s.m, s.e, FALSE)

BMul(x, y) == LET p == DMul(x, y) IN Round(p.m, p.e, FALSE)

\* x / y for y # 0: a quotient of at least 55 binary digits, then rounded
BDiv(x, y) ==
    IF x.m = <<>> THEN Binary64(<<>>, 0)
    ELSE LET need == 55 + NBits(y.m) - NBits(x.m)
             s == IF need > 0 THEN need ELSE 0
             d == NDivMod(NShl(x.m, s), y.m)
         IN  Round(d.q, x.e - y.e - s, d.r # <<>>)

BLess(x, y) ==
    LET e == IF x.e < y.e THEN x.e ELSE y.e
    IN  NLess(NShl(x.m, x.e - e), NShl(y.m, y.e - e))

(***************************************************************************)
(* combine.py once more, with the floats of Python as they are: every      *)
(* division, addition and multiplication rounds its result to binary64.    *)
(* The integer metrics are below 2^53, so that sums of integers and        *)
(* conversions of integers to floats are exact, as they are in Python.     *)
(* class_summary yields the classes in the order of their first            *)
(* definition, which the class table of the model does not keep: names is  *)
(* that order.                                                             *)
(***************************************************************************)
\* CombinedClassMetrics(wmc=..., ...): a dict of the seven metrics, from
\* their values in the order of ck_metrics
CombinedClassMetrics(values) ==
    [wmc |-> values[1], dit |-> values[2], noc |-> values[3],
     cbo |-> values[4], rfc |-> values[5], lcom4 |-> values[6],
     lcom4_normalized |-> values[7]]

\* the dict the loop over names fills with values[i] for names[i], entry
\* after entry
Dict(names, values) ==
    LET RECURSIVE from(_)
        from(i) == IF i > Len(names) THEN EmptyMap
                   ELSE (names[i] :> values[i]) @@ from(i + 1)
    IN  from(1)

\* class_data[metric] as a float: lcom4_normalized is the quotient
\* _calculate_normalized_lcom4 divided out
number_binary64(class_data, metric) ==
    IF metric = "lcom4_normalized"
    THEN BDiv(BOfInt(class_data[metric].num), BOfInt(class_data[metric].den))
    ELSE BOfInt(class_data[metric])

\* sum(values): the additions from the left, starting from 0, each rounded
BSum(values) ==
    LET RECURSIVE from(_, _)
        from(i, total) ==
            IF i > Len(values) THEN total ELSE from(i + 1, BAdd(total, values[i]))
    IN  from(1, BOfInt(0))

\* the sum of the values without any rounding
DSum(values) ==
    LET RECURSIVE from(_, _)
        from(i, total) ==
            IF i > Len(values) THEN total ELSE from(i + 1, DAdd(total, values[i]))
    IN  from(1, BOfInt(0))

metric_values_binary64(class_metrics, names, metric) ==
    [i \in DOMAIN names |-> number_binary64(class_metrics[names[i]], metric)]

metric_sums_binary64(class_metrics, names) ==
    CombinedClassMetrics([m \in DOMAIN ck_metrics |->
        BSum(metric_values_binary64(class_metrics, names, ck_metrics[m]))])

\* the other metrics the loop does not skip, in the order of the loop
valid_metrics_binary64(target_metric, sums) ==
    SelectSeq(ck_metrics, LAMBDA m : m # target_metric /\ sums[m] # BOfInt(0))

\* as avg_weight_binary64, divided by the number of all other metrics
avg_weight_binary64_of_six(class_data, target_metric, sums) ==
    LET valid == valid_metrics_binary64(target_metric, sums)
        weight_sum == BSum([i \in DOMAIN valid |->
                              BDiv(number_binary64(class_data, valid[i]), sums[valid[i]])])
    IN  IF Len(valid) > 0
        THEN BDiv(weight_sum, BOfInt(Len(ck_metrics) - 1))
        ELSE BOfInt(1)

avg_weight_binary64(class_data, target_metric, sums) ==
    LET valid == valid_metrics_binary64(target_metric, sums)
        weight_sum == BSum([i \in DOMAIN valid |->
                              BDiv(number_binary64(class_data, valid[i]), sums[valid[i]])])
        valid_metrics_count == Len(valid)
    IN  IF valid_metrics_count > 0
        THEN BDiv(weight_sum, BOfInt(valid_metrics_count))
        ELSE BOfInt(1)

combine_metrics_binary64(metrics, names) ==
    LET class_metrics == metrics.class_summary
        sums == metric_sums_binary64(class_metrics, names)
    IN  Dict(names, [i \in DOMAIN names |->
          CombinedClassMetrics([m \in DOMAIN ck_metrics |->
            BMul(number_binary64(class_metrics[names[i]], ck_metrics[m]),
                 avg_weight_binary64(class_metrics[names[i]], ck_metrics[m], sums))])])

\* statistics.mean of a list that is not empty: the exact sum divided by
\* the length, rounded once
mean_binary64(values) == BDiv(DSum(values), BOfInt(Len(values)))

\* statistics.median of a list that is not empty
median_binary64(values) ==
    LET data == SortSeq(values, BLess)
        n == Len(data)
    IN  IF n % 2 = 1 THEN data[(n \div 2) + 1]
        ELSE BDiv(BAdd(data[n \div 2], data[(n \div 2) + 1]), BOfInt(2))

calculate_mean_metrics_binary64(metrics, names) ==
    CombinedClassMetrics([m \in DOMAIN ck_metrics |->
        mean_binary64(metric_values_binary64(metrics.class_summary, names, ck_metrics[m]))])

calculate_median_metrics_binary64(metrics, names) ==
    CombinedClassMetrics([m \in DOMAIN ck_metrics |->
        median_binary64(metric_values_binary64(metrics.class_summary, names, ck_metrics[m]))])

calculate_weighted_metrics_combined_binary64(weighted_metrics, names) ==
    CombinedClassMetrics([m \in DOMAIN ck_metrics |->
        BSum([i \in DOMAIN names |-> weighted_metrics[names[i]][ck_metrics[m]]])])

original_metrics_binary64(metrics, names) ==
    Dict(names, [i \in DOMAIN names |->
      CombinedClassMetrics([m \in DOMAIN ck_metrics |->
        number_binary64(metrics.class_summary[names[i]], ck_metrics[m])])])

\* what get_aggregated_metrics returns or raises when the classes of
\* class_summary come in the order names: no division is by zero,
\* statistics.mean raises StatisticsError on an empty list
get_aggregated_metrics_outcome_binary64(metrics, names) ==
    LET weighted_metrics == combine_metrics_binary64(metrics, names)
    IN  IF names = <<>>
        THEN Outcome("StatisticsError", <<>>)
        ELSE Outcome("",
               [original_metrics |-> original_metrics_binary64(metrics, names),
                weighted_metrics |-> weighted_metrics,
                weighted_metrics_combined |->
                    calculate_weighted_metrics_combined_binary64(weighted_metrics, names),
                mean_metrics |-> calculate_mean_metrics_binary64(metrics, names),
                median_metrics |-> calculate_median_metrics_binary64(metrics, names)])

\* main: the metrics process_path returned are aggregated
get_aggregated_metrics_binary64 ==
    /\ result # <<>>
    /\ aggregated = <<>>
    /\ \E names \in [1..Cardinality(DOMAIN result[1].class_summary) ->
                       DOMAIN result[1].class_summary] :
         /\ Range(names) = DOMAIN result[1].class_summary
         /\ aggregated' = <<get_aggregated_metrics_outcome_binary64(result[1], names)>>
    /\ UNCHANGED <<classes, inheritance_graph, file_paths, class_filter, parsed,
                   printed, result, ndefs>>

(***************************************************************************)
(* The analyzer after construction.                                        *)
(***************************************************************************)
__init__(filter) ==
    /\ classes = EmptyMap
    /\ inheritance_graph = DiGraph
    /\ file_paths = EmptyMap
    /\ class_filter = filter
    /\ parsed = EmptyMap
    /\ printed = {}
    /\ result = <<>>
    /\ aggregated = <<>>
    /\ ndefs = 0

\* the analyzer without a class filter
Init == __init__(<<>>)

\* calculate_metrics has returned; Metrics is what it returned
Returned == result # <<>>

Metrics == result[1]

(***************************************************************************)
(* Inheritance: up to MaxDefs class definitions over three class names,    *)
(* each with up to MaxBases bases among two of the names, a name no        *)
(* definition has (E) and object, written in the order of InhBaseExprs; a  *)
(* name may be defined again.                                              *)
(***************************************************************************)
InhClassNames == {"A", "B", "C"}

InhBaseExprs == <<Name("A"), Name("B"), Name("E"), Name("object")>>

\* the subsequences of s of at most n elements
SubSeqsUpTo(s, n) ==
    {[i \in DOMAIN idx |-> s[idx[i]]] :
        idx \in {f \in SeqsUpTo(DOMAIN s, n) :
                    \A i, j \in DOMAIN f : i < j => f[i] < f[j]}}

InhBaseLists == SubSeqsUpTo(InhBaseExprs, MaxBases)

InhDefs == {ClassDef(n, bases, <<Pass>>) : n \in InhClassNames, bases \in InhBaseLists}

NextInh ==
    \/ /\ ndefs < MaxDefs
       /\ \E node \in InhDefs : _process_ast(node, "a.py")
    \/ calculate_metrics

SpecInh == Init /\ [][NextInh]_vars

(***************************************************************************)
(* Coupling: a class A with up to MaxBases bases and a body of up to       *)
(* MaxItems statements, beside a class B that is empty and may inherit     *)
(* from A; each of the two names is defined once.  A method is m1 (of      *)
(* complexity 1) or m2 (of complexity MaxComplexity) and holds at most one *)
(* call or attribute node.                                                 *)
(***************************************************************************)
CplBaseExprs == <<Name("B"), Attribute("pkg", "E"), OtherExpr, Name("object")>>

CplBaseLists == SubSeqsUpTo(CplBaseExprs, MaxBases)

CplNodes ==
    {Call(Name("B")), Call(Name("A")), Call(Name("list")), Call(Name("super")),
     Call(Attribute("B", "m1")), Call(Attribute("A", "m2")),
     Call(Attribute("self", "m2")), Call(Attribute("f", "read")),
     Call(AttributeOf("m1")), Expr(Attribute("self", "x"))}

CplNodeSets == {{}} \cup {{n} : n \in CplNodes}

CplItems ==
    {FunctionDef("m1", nodes, Branches(1)) : nodes \in CplNodeSets}
    \cup {FunctionDef("m2", nodes, Branches(MaxComplexity)) : nodes \in CplNodeSets}
    \cup {Assign(<<Name("B"), Attribute("self", "A")>>), AnnAssign(Name("v")), Pass}

CplDefsA ==
    {ClassDef("A", bases, body) :
        bases \in CplBaseLists, body \in SeqsUpTo(CplItems, MaxItems)}

CplDefsB == {ClassDef("B", <<>>, <<Pass>>), ClassDef("B", <<Name("A")>>, <<Pass>>)}

NextCpl ==
    \/ /\ ndefs < MaxDefs
       /\ "A" \notin DOMAIN classes
       /\ \E node \in CplDefsA : _process_ast(node, "a.py")
    \/ /\ ndefs < MaxDefs
       /\ "B" \notin DOMAIN classes
       /\ \E node \in CplDefsB : _process_ast(node, "a.py")
    \/ calculate_metrics

SpecCpl == Init /\ [][NextCpl]_vars

(***************************************************************************)
(* Cohesion: one class A of up to MaxMethods methods m1, m2, ...; each     *)
(* method reads one of three attributes of self, calls self.m1(), or does  *)
(* neither.                                                                *)
(***************************************************************************)
CohMethodName(i) == "m" \o ToString(i)

CohNodeSets ==
    {{}} \cup {{Expr(Attribute("self", a))} : a \in {"a1", "a2", "a3"}}
         \cup {{Call(Attribute("self", CohMethodName(1)))}}

\* the class A of k methods, nodes[i] the nodes of method mi
CohDef(k, nodes) ==
    ClassDef("A", <<>>, [i \in 1..k |-> FunctionDef(CohMethodName(i), nodes[i], Branches(1))])

NextCoh ==
    \/ /\ ndefs < MaxDefs
       /\ "A" \notin DOMAIN classes
       /\ \E k \in 0..MaxMethods : \E nodes \in [1..k -> CohNodeSets] :
            _process_ast(CohDef(k, nodes), "a.py")
    \/ calculate_metrics

SpecCoh == Init /\ [][NextCoh]_vars

(***************************************************************************)
(* Aggregation: the classes A, B and C, each defined at most once, without *)
(* a base or with the base A, and with one of four bodies; the metrics of  *)
(* the project are calculated, then aggregated.                            *)
(***************************************************************************)
AggClassNames == {"A", "B", "C"}

AggBaseLists == {<<>>, <<Name("A")>>}

AggBodies ==
    {<<Pass>>,
     <<FunctionDef("m1", {}, Branches(1))>>,
     <<FunctionDef("m1", {Call(Name("B"))}, Branches(MaxComplexity)),
       FunctionDef("m2", {Expr(Attribute("self", "x"))}, Branches(1))>>,
     <<FunctionDef("m1", {Call(Attribute("self", "m2"))}, Branches(1)),
       FunctionDef("m2", {Call(Attribute("C", "m3"))}, Branches(1))>>}

NextAgg ==
    \/ /\ ndefs < MaxDefs
       /\ \E n \in AggClassNames \ DOMAIN parsed :
            \E bases \in AggBaseLists : \E body \in AggBodies :
              _process_ast(ClassDef(n, bases, body), "a.py")
    \/ calculate_metrics
    \/ get_aggregated_metrics

SpecAgg == Init /\ [][NextAgg]_vars

(***************************************************************************)
(* Aggregation in binary64: the classes of B64ClassNames, each defined at  *)
(* most once, with the bases and bodies of the aggregation inputs; the     *)
(* metrics of the project are calculated, then aggregated with the         *)
(* arithmetic of floats.                                                   *)
(***************************************************************************)
B64ClassNames == {"A", "B", "C"}

NextB64 ==
    \/ \E n \in B64ClassNames \ DOMAIN parsed :
         \E bases \in AggBaseLists : \E body \in AggBodies :
           _process_ast(ClassDef(n, bases, body), "a.py")
    \/ calculate_metrics
    \/ get_aggregated_metrics_binary64

SpecB64 == Init /\ [][NextB64]_vars

(***************************************************************************)
(* Class filter: an analyzer constructed without a filter or with one of   *)
(* three lists of names; the classes A, B and D, each defined at most      *)
(* once, with no base or the base A or D, and a body that is empty, calls  *)
(* D(), calls D.m1() or assigns the class attribute D.                     *)
(***************************************************************************)
FltFilters == {<<>>, <<{"A"}>>, <<{"A", "B"}>>, <<{"X"}>>}

FltClassNames == {"A", "B", "D"}

FltBaseLists == {<<>>, <<Name("A")>>, <<Name("D")>>}

FltBodies ==
    {<<Pass>>,
     <<FunctionDef("m1", {Call(Name("D"))}, Branches(1))>>,
     <<FunctionDef("m1", {Call(Attribute("D", "m1"))}, Branches(1))>>,
     <<Assign(<<Name("D")>>)>>}

InitFlt == \E filter \in FltFilters : __init__(filter)

NextFlt ==
    \/ /\ ndefs < MaxDefs
       /\ \E n \in FltClassNames \ DOMAIN parsed :
            \E bases \in FltBaseLists : \E body \in FltBodies :
              _process_ast(ClassDef(n, bases, body), "a.py")
    \/ calculate_metrics

SpecFlt == InitFlt /\ [][NextFlt]_vars

(***************************************************************************)
(* Directory: parse_directory hands up to MaxDefs files to parse_file, the *)
(* k-th being f<k>.py.  A file has a syntax error or holds one class       *)
(* definition: A, B or C, with no base or the base A, B or E (defined      *)
(* nowhere), and a body that is empty or a method calling B().  A name may *)
(* be defined again in a later file.                                       *)
(***************************************************************************)
DirClassNames == {"A", "B", "C"}

DirBaseLists == {<<>>, <<Name("A")>>, <<Name("B")>>, <<Name("E")>>}

DirBodies == {<<Pass>>, <<FunctionDef("m1", {Call(Name("B"))}, Branches(1))>>}

\* the number of files handed to parse_file so far
DirFilesDone == ndefs + Cardinality(printed)

DirFile(k) == "f" \o ToString(k) \o ".py"

NextDir ==
    \/ /\ DirFilesDone < MaxDefs
       /\ \E n \in DirClassNames : \E bases \in DirBaseLists : \E body \in DirBodies :
            _process_ast(ClassDef(n, bases, body), DirFile(DirFilesDone + 1))
    \/ /\ DirFilesDone < MaxDefs
       /\ parse_file_syntax_error(DirFile(DirFilesDone + 1))
    \/ calculate_metrics

SpecDir == Init /\ [][NextDir]_vars

(***************************************************************************)
(* Attributes: one class A whose body has up to MaxItems items: a plain    *)
(* or annotated assignment to names, to self.y or to a subscript, pass, or *)
(* a method m1 or m2 that assigns self.x, reads self.z, assigns other.q or *)
(* calls B().                                                              *)
(***************************************************************************)
AttrAssignments ==
    {Assign(<<Name("v")>>), Assign(<<Name("v"), Name("u")>>),
     Assign(<<Attribute("self", "y")>>), AnnAssign(Name("w")),
     AnnAssign(OtherExpr), Pass}

AttrNodes ==
    {Store(Attribute("self", "x")), Expr(Attribute("self", "z")),
     Store(Attribute("other", "q")), Call(Name("B"))}

AttrItems ==
    AttrAssignments
      \cup {FunctionDef(m, nodes, Branches(1)) : m \in {"m1", "m2"}, nodes \in SUBSET AttrNodes}

NextAttr ==
    \/ /\ ndefs < MaxDefs
       /\ "A" \notin DOMAIN classes
       /\ \E body \in SeqsUpTo(AttrItems, MaxItems) :
            _process_ast(ClassDef("A", <<>>, body), "a.py")
    \/ calculate_metrics

SpecAttr == Init /\ [][NextAttr]_vars

(***************************************************************************)
(* Complexity: one class A of one method m1, whose body is a statement     *)
(* that holds up to MaxChildren nodes, followed or not by a return.  The   *)
(* statement is any of the nodes ComplexityVisitor has a visit method for, *)
(* a with statement or an expression statement; the nodes it holds are of  *)
(* the kinds of CxInner.                                                   *)
(***************************************************************************)
\* the kinds whose visit method adds 1
CxBranchKinds == {"If", "For", "AsyncFor", "While", "ExceptHandler", "IfExp"}

\* the kinds that add nothing: those with a visit method that only walks
\* on, and two without a visit method
CxPlainKinds ==
    {"Try", "Lambda", "Assert", "Yield", "YieldFrom", "Return", "Raise",
     "NamedExpr", "With", "Expr"}

CxCompKinds == {"ListComp", "DictComp", "SetComp", "GeneratorExp"}

\* the filter clauses of the generators of a comprehension: one generator
\* of 0 .. MaxIfs filters, or two generators of 1 and MaxIfs filters
CxGenerators == {<<n>> : n \in 0..MaxIfs} \cup {<<1, MaxIfs>>}

\* the nodes of every kind that hold the given children
CxNodes(children) ==
    {Node(kind, children) : kind \in CxBranchKinds \cup CxPlainKinds}
    \cup {BoolOp(values, children) : values \in 2..MaxOperands}
    \cup {Match(cases, children) : cases \in 1..MaxCases}
    \cup {Comprehension(kind, generators, children) :
            kind \in CxCompKinds, generators \in CxGenerators}

\* the nodes held by the statement
CxInner ==
    {Node(kind, <<>>) : kind \in {"If", "While", "IfExp", "ExceptHandler",
                                  "Lambda", "Return", "Assert", "With",
                                  "NamedExpr"}}
    \cup {BoolOp(2, <<>>), BoolOp(MaxOperands, <<>>), Match(MaxCases, <<>>),
          Comprehension("ListComp", <<1, MaxIfs>>, <<>>)}

CxDef(body) == ClassDef("A", <<>>, <<FunctionDef("m1", {}, body)>>)

NextCx ==
    \/ /\ ndefs < MaxDefs
       /\ "A" \notin DOMAIN parsed
       /\ \E children \in SeqsUpTo(CxInner, MaxChildren) :
            \E stmt \in CxNodes(children) :
              \E rest \in {<<>>, <<Node("Return", <<>>)>>} :
                _process_ast(CxDef(<<stmt>> \o rest), "a.py")
    \/ calculate_metrics

SpecCx == Init /\ [][NextCx]_vars

(***************************************************************************)
(* Depth of inheritance and number of children.                            *)
(***************************************************************************)
Discovered == DOMAIN classes

Summary(c) == Metrics.class_summary[c]

\* the nodes with an edge into n
InEdges(n) == {e[1] : e \in {d \in inheritance_graph.edges : d[2] = n}}

\* no definition so far named its own class as a base
NoSelfBase == \A n \in inheritance_graph.nodes : n \notin InEdges(n)

\* no class name was defined twice so far
NoRedefinition == ndefs = Cardinality(Discovered)

\* some simple path starts in a root, visits exactly the nodes S and ends in v
RECURSIVE RootPathOver(_, _)
RootPathOver(S, v) ==
    /\ v \in S
    /\ \/ S = {v} /\ InEdges(v) = {}
       \/ \E u \in S \ {v} : u \in InEdges(v) /\ RootPathOver(S \ {v}, u)

\* the edges of the longest simple path from a root to v; 0 without one
LongestRootPath(v) ==
    MaxOf({0} \cup {Cardinality(S) - 1 :
                      S \in {T \in SUBSET inheritance_graph.nodes : RootPathOver(T, v)}})

\* C1: the DIT of every discovered class is the number of edges of the
\* longest simple path from a root of the inheritance graph to it (0 without
\* such a path); in a chain g <- p <- c the values are 0, 1, 2
ThmC1_DitLongestRootPath ==
    Returned =>
      /\ \A c \in Discovered : Summary(c).dit = LongestRootPath(c)
      /\ \A g, p, c \in Discovered :
           (InEdges(g) = {} /\ InEdges(p) = {g} /\ InEdges(c) = {p})
             => (Summary(g).dit = 0 /\ Summary(p).dit = 1 /\ Summary(c).dit = 2)

\* a class with two bases, one a root right above it and one at the end of
\* a chain of two, has the depth of the longer way
WitC1_MultipleInheritance ==
    /\ Returned
    /\ \E c \in Discovered :
         /\ Summary(c).dit = 3
         /\ \E r \in InEdges(c) : InEdges(r) = {}
         /\ Cardinality(InEdges(c)) = 2

CexC3_NocDeclaringClasses ==
    (Returned /\ NoSelfBase) =>
      \A c \in Discovered :
        Summary(c).noc = Cardinality({d \in Discovered : c \in Range(classes[d].bases)})

\* C4 as stated: a class b whose only declared base is another name a has
\* DIT 1, and a, when discovered, has NOC >= 1 (a is a root or below one)
CexC4_SingleBaseDitOne ==
    (Returned /\ NoSelfBase /\ NoRedefinition) =>
      \A b \in Discovered : \A a \in inheritance_graph.nodes :
        (/\ classes[b].bases = <<a>> /\ a # b /\ classes[b].methods = {}
         /\ (InEdges(a) = {} \/ LongestRootPath(a) > 0))
          => /\ Summary(b).dit = 1
             /\ a \in Discovered => Summary(a).noc >= 1

\* C4 amended: for a class b whose only declared base is another name a,
\* NOC(a) >= 1 when a is discovered; DIT(b) = 1 when a has no incoming edge
\* and a is the only edge into b, and DIT(b) = DIT(a) + 1 when a is a
\* discovered class of positive depth and the only edge into b
ThmC4_SingleBaseOfRoot ==
    Returned =>
      \A b \in Discovered : \A a \in inheritance_graph.nodes :
        (classes[b].bases = <<a>> /\ a # b /\ classes[b].methods = {})
          => /\ a \in Discovered => Summary(a).noc >= 1
             /\ (InEdges(a) = {} /\ InEdges(b) = {a}) => Summary(b).dit = 1
             /\ (a \in Discovered /\ InEdges(b) = {a} /\ Summary(a).dit > 0)
                  => Summary(b).dit = Summary(a).dit + 1

WitC4_PassClassUnderRoot ==
    /\ Returned
    /\ \E a, b \in Discovered :
         /\ classes[b].bases = <<a>> /\ a # b
         /\ classes[b].methods = {} /\ classes[b].attributes = {}
         /\ InEdges(a) = {}
         /\ Summary(b).dit = 1 /\ Summary(a).noc = 1

(***************************************************************************)
(* Coupling and response.                                                  *)
(***************************************************************************)
\* the names called from the methods of class c
CalledNames(c) == UNION {classes[c].method_calls[m] : m \in DOMAIN classes[c].method_calls}

\* the names the claim counts for class c
CountedNames(c) ==
    (Range(classes[c].bases)
       \cup classes[c].called_classes
       \cup {n \in CalledNames(c) : n \in Discovered \ {c}}
       \cup {a \in classes[c].attributes : a \in Discovered \ {c}})
    \ {"object", "self"}

\* C5: the CBO of a class is the number of distinct names among its
\* bases, the receivers of its qualified calls, the called names and the
\* attribute names that name another discovered class, object and self
\* left out; a class with one base and no call has CBO 1, and so has a
\* class without bases whose only coupling is a call of another class
ThmC5_CboCountsCoupledNames ==
    Returned =>
      \A c \in Discovered :
        /\ Summary(c).cbo = Cardinality(CountedNames(c))
        /\ (/\ Len(classes[c].bases) = 1
            /\ classes[c].bases[1] \notin {"object", "self"}
            /\ CalledNames(c) = {} /\ classes[c].called_classes = {}
            /\ classes[c].attributes = {})
             => Summary(c).cbo = 1
        /\ (/\ classes[c].bases = <<>>
            /\ \E h \in Discovered \ {c} : CalledNames(c) = {h}
            /\ classes[c].called_classes = {} /\ classes[c].attributes = {})
             => Summary(c).cbo = 1

\* a class coupled to B three times over (base, call receiver and called
\* name) and to the receiver self counts B once and self not at all
WitC5_CountedOnce ==
    /\ Returned
    /\ \E c \in Discovered :
         /\ "B" \in Discovered \ {c}
         /\ "B" \in Range(classes[c].bases)
         /\ classes[c].called_classes = {"B", "self"}
         /\ Summary(c).cbo = 1

\* C6 as stated: the name of the class itself is never among the names
\* its CBO counts
CexC6_CboExcludesOwnName ==
    Returned =>
      \A c \in Discovered : Summary(c).cbo = Cardinality(CountedNames(c) \ {c})

\* C7: the RFC of a class is the number of distinct names among its
\* methods and the names its methods call, a called name of the built-in
\* namespace counting only when it is one of the seven names that always
\* count
ThmC7_RfcResponseSet ==
    Returned =>
      \A c \in Discovered :
        Summary(c).rfc =
          Cardinality(classes[c].methods \cup
                      {n \in CalledNames(c) :
                         n \in {"super", "getattr", "setattr", "delattr",
                                "hasattr", "type", "dir"}
                         \/ n \notin built_ins})

\* a class whose two methods call super and list: super counts, list not
WitC7_SuperCountsListNot ==
    /\ Returned
    /\ \E c \in Discovered :
         /\ CalledNames(c) = {"super", "list"}
         /\ Cardinality(classes[c].methods) = 2
         /\ Summary(c).rfc = 3

\* class c has exactly one method, no bases, no calls and no attributes
SingleMethodClass(c) ==
    /\ Cardinality(classes[c].methods) = 1
    /\ classes[c].bases = <<>>
    /\ CalledNames(c) = {} /\ classes[c].called_classes = {}
    /\ classes[c].attributes = {}
    /\ \A m \in classes[c].methods : classes[c].method_attrs[m] = {}

\* C8 as stated: such a class has RFC 1, CBO 0, LCOM4 1, the WMC of its
\* method's complexity, DIT 0 and NOC 0
CexC8_SingleMethodNocZero ==
    Returned =>
      \A c \in Discovered :
        SingleMethodClass(c) =>
          /\ Summary(c).rfc = 1 /\ Summary(c).cbo = 0 /\ Summary(c).lcom4 = 1
          /\ \A m \in classes[c].methods : Summary(c).wmc = classes[c].method_complexity[m]
          /\ Summary(c).dit = 0 /\ Summary(c).noc = 0

\* C8 amended: such a class has RFC 1, CBO 0, LCOM4 1 and the WMC of its
\* method's complexity; its DIT is 0 when no edge of the inheritance graph
\* enters it, and its NOC is the number of nodes it has an edge to
ThmC8_SingleMethodClass ==
    Returned =>
      \A c \in Discovered :
        SingleMethodClass(c) =>
          /\ Summary(c).rfc = 1 /\ Summary(c).cbo = 0 /\ Summary(c).lcom4 = 1
          /\ \A m \in classes[c].methods : Summary(c).wmc = classes[c].method_complexity[m]
          /\ InEdges(c) = {} => Summary(c).dit = 0
          /\ Summary(c).noc = Cardinality({d \in inheritance_graph.nodes : c \in InEdges(d)})

WitC8_SingleMethodParent ==
    /\ Returned
    /\ \E c \in Discovered :
         /\ SingleMethodClass(c)
         /\ Summary(c).wmc = MaxComplexity
         /\ Summary(c).rfc = 1 /\ Summary(c).cbo = 0 /\ Summary(c).lcom4 = 1
         /\ Summary(c).dit = 0 /\ Summary(c).noc = 1

(***************************************************************************)
(* Cohesion.                                                               *)
(***************************************************************************)
\* methods m and n of class c share an attribute of self, or one calls the other
Joined(c, m, n) ==
    \/ classes[c].method_attrs[m] \cap classes[c].method_attrs[n] # {}
    \/ n \in classes[c].method_calls[m]
    \/ m \in classes[c].method_calls[n]

\* the transitive closure of the relation R
RECURSIVE TransitiveClosure(_)
TransitiveClosure(R) ==
    LET S == R \cup {<<p[1], q[2]>> : <<p, q>> \in {pq \in R \X R : pq[1][2] = pq[2][1]}}
    IN  IF S = R THEN R ELSE TransitiveClosure(S)

\* the connected components of the methods of class c
Components(c) ==
    LET M == classes[c].methods
        T == TransitiveClosure({p \in M \X M : p[1] # p[2] /\ Joined(c, p[1], p[2])})
    IN  {{n \in M : n = m \/ <<m, n>> \in T} : m \in M}

\* C9: the LCOM4 of a class is the number of connected components of its
\* methods under Joined: 0 without methods, the number of methods when no
\* two distinct methods are joined
ThmC9_Lcom4Components ==
    Returned =>
      \A c \in Discovered :
        /\ Summary(c).lcom4 = Cardinality(Components(c))
        /\ classes[c].methods = {} => Summary(c).lcom4 = 0
        /\ (\A m, n \in classes[c].methods : m # n => ~Joined(c, m, n))
             => Summary(c).lcom4 = Cardinality(classes[c].methods)

\* two methods that are not joined lie in one component, beside another
\* component
WitC9_TransitivelyConnected ==
    /\ Returned
    /\ \E c \in Discovered :
         /\ Summary(c).lcom4 = 2
         /\ \E m, n \in classes[c].methods :
              /\ m # n /\ ~Joined(c, m, n)
              /\ \E comp \in Components(c) : {m, n} \subseteq comp

\* C10: the normalised LCOM4 of a class of more than one method is the
\* quotient (LCOM4 - 1) / (methods - 1), that of a class of at most one
\* method is 0.0; six methods in three components give 2/5
ThmC10_NormalizedLcom4 ==
    Returned =>
      \A c \in Discovered :
        LET count == Cardinality(classes[c].methods)
            norm == Summary(c).lcom4_normalized
        IN  /\ norm.den > 0
            /\ count > 1 => norm.num * (count - 1) = (Summary(c).lcom4 - 1) * norm.den
            /\ count <= 1 => (norm.num = 0 /\ norm.den = 1)
            /\ (count = 6 /\ Summary(c).lcom4 = 3) => (norm.num = 2 /\ norm.den = 5)

\* three groups of two methods, each group on an attribute of its own, and
\* no call
WitC10_ThreeGroupsOfTwo ==
    /\ Returned
    /\ \E c \in Discovered :
         /\ Cardinality(classes[c].methods) = 6
         /\ CalledNames(c) = {}
         /\ \A a \in {"a1", "a2", "a3"} :
              Cardinality({m \in classes[c].methods : classes[c].method_attrs[m] = {a}}) = 2
         /\ Summary(c).lcom4 = 3
         /\ Summary(c).lcom4_normalized = [num |-> 2, den |-> 5]

(***************************************************************************)
(* Weighted methods per class.                                             *)
(***************************************************************************)
\* the complexity recorded for method m of class c, 1 when none is recorded
RecordedComplexity(c, m) == Get(classes[c].method_complexity, m, 1)

\* the sum of the recorded complexities of class c, level by level: k times
\* the number of methods of complexity k
WmcByLevel(c) ==
    LET levels == {RecordedComplexity(c, m) : m \in classes[c].methods}
    IN  SumSeq([k \in 1..MaxOf({0} \cup levels) |->
                  k * Cardinality({m \in classes[c].methods :
                                     RecordedComplexity(c, m) = k})])

\* C11: the WMC of a class is the sum of the recorded complexities of its
\* methods; it is at least the number of its methods, and 0 without methods
ThmC11_WmcSumOfComplexities ==
    Returned =>
      \A c \in Discovered :
        /\ \A m \in classes[c].methods : RecordedComplexity(c, m) >= 1
        /\ Summary(c).wmc = WmcByLevel(c)
        /\ Summary(c).wmc >= Cardinality(classes[c].methods)
        /\ classes[c].methods = {} => Summary(c).wmc = 0

\* a class of two methods whose WMC exceeds the number of its methods,
\* beside a class without methods
WitC11_TwoMethodsAndNone ==
    /\ Returned
    /\ \E c, d \in Discovered :
         /\ Cardinality(classes[c].methods) = 2
         /\ Summary(c).wmc = 1 + MaxComplexity
         /\ Summary(c).wmc > 2
         /\ classes[d].methods = {} /\ Summary(d).wmc = 0

(***************************************************************************)
(* Cyclomatic complexity of a method.                                      *)
(***************************************************************************)
\* the nodes of a body, each once, whatever their nesting
RECURSIVE Flatten(_)
Flatten(body) ==
    IF body = <<>> THEN <<>>
    ELSE <<Head(body)>> \o Flatten(Head(body).children) \o Flatten(Tail(body))

\* the nodes of a body whose kind is among kinds
NodesOfKind(body, kinds) == SelectSeq(Flatten(body), LAMBDA n : n.kind \in kinds)

\* the complexity the spec gives a body: 1, and for every construct of the
\* body, nested or not, what the construct adds
StatedComplexity(body) ==
    LET bools == NodesOfKind(body, {"BoolOp"})
        matches == NodesOfKind(body, {"Match"})
        comps == NodesOfKind(body, {"ListComp", "SetComp", "DictComp", "GeneratorExp"})
    IN  1 + Len(NodesOfKind(body, {"If"}))
          + Len(NodesOfKind(body, {"IfExp"}))
          + Len(NodesOfKind(body, {"For", "AsyncFor", "While"}))
          + SumSeq([i \in DOMAIN bools |-> bools[i].values - 1])
          + Len(NodesOfKind(body, {"ExceptHandler"}))
          + SumSeq([i \in DOMAIN matches |-> 1 + matches[i].cases])
          + SumSeq([i \in DOMAIN comps |-> SumSeq(comps[i].generators)])

\* the methods of class c as last parsed: the last definition of each name
MethodItems(c) ==
    LET body == parsed[c].body
    IN  {body[i] : i \in {j \in DOMAIN body :
                            /\ body[j].kind = "FunctionDef"
                            /\ \A k \in DOMAIN body :
                                 (k > j /\ body[k].kind = "FunctionDef")
                                   => body[k].name # body[j].name}}

\* if x > 0 and y > 0: return 1
\* return 0
IfAndReturn ==
    <<Node("If", <<BoolOp(2, <<>>), Node("Return", <<>>)>>), Node("Return", <<>>)>>

\* C12: the complexity reported for a method is 1 plus what its if
\* statements, ternaries, loops, boolean operations (operands - 1),
\* exception handlers, match statements (1 + case arms) and comprehension
\* filters add, nested constructs included; IfAndReturn has complexity 3
ThmC12_ComplexityCountsBranches ==
    Returned =>
      \A c \in Discovered : \A item \in MethodItems(c) :
        /\ item.name \in DOMAIN Summary(c).methods
        /\ Summary(c).methods[item.name].complexity = StatedComplexity(item.body)
        /\ item.body = IfAndReturn => Summary(c).methods[item.name].complexity = 3

\* a match statement that holds a boolean operation of more than two
\* operands and a comprehension of two generators
WitC12_NestedConstructs ==
    /\ Returned
    /\ \E c \in Discovered : \E item \in MethodItems(c) :
         /\ Len(item.body) = 2
         /\ item.body[1].kind = "Match" /\ item.body[1].cases = MaxCases
         /\ item.body[1].children =
              <<BoolOp(MaxOperands, <<>>), Comprehension("ListComp", <<1, MaxIfs>>, <<>>)>>
         /\ Summary(c).methods[item.name].complexity
              = 1 + (1 + MaxCases) + (MaxOperands - 1) + (1 + MaxIfs)

\* the kinds that are no branch point
NonBranching ==
    {"Lambda", "Return", "Raise", "Yield", "YieldFrom", "Assert", "NamedExpr",
     "Try", "With"}

\* C13: the complexity of a method is at least 1, and exactly 1 when its
\* body holds only lambdas, returns, raises, yields, asserts, walrus
\* expressions, try and with statements
ThmC13_NonBranchingAddNothing ==
    Returned =>
      \A c \in Discovered : \A item \in MethodItems(c) :
        /\ Summary(c).methods[item.name].complexity >= 1
        /\ Len(NodesOfKind(item.body, NonBranching)) = Len(Flatten(item.body))
             => Summary(c).methods[item.name].complexity = 1

\* a with statement that holds a lambda and an assert, followed by a return
WitC13_WithLambdaAssert ==
    /\ Returned
    /\ \E c \in Discovered : \E item \in MethodItems(c) :
         /\ item.body = <<Node("With", <<Node("Lambda", <<>>), Node("Assert", <<>>)>>),
                          Node("Return", <<>>)>>
         /\ Summary(c).methods[item.name].complexity = 1

(***************************************************************************)
(* Aggregation of the metrics of a project.                                *)
(***************************************************************************)
\* get_aggregated_metrics has returned; Agg is what it returned
Aggregated == aggregated # <<>> /\ aggregated[1].raised = ""

Agg == aggregated[1].value

Metric == {"wmc", "dit", "noc", "cbo", "rfc", "lcom4", "lcom4_normalized"}

\* the original value of metric m of class c, as a fraction
Original(c, m) ==
    IF m = "lcom4_normalized" THEN Summary(c)[m] ELSE [num |-> Summary(c)[m], den |-> 1]

a \prec b == a.num * b.den < b.num * a.den

a (+) b == Float(a.num * b.den + b.num * a.den, a.den * b.den)

a (.) b == Float(a.num * b.num, a.den * b.den)

\* the sum of f over the set S
RECURSIVE Sigma(_, _)
Sigma(f, S) ==
    IF S = {} THEN [num |-> 0, den |-> 1]
    ELSE LET x == CHOOSE y \in S : TRUE IN f[x] (+) Sigma(f, S \ {x})

\* the project-wide sum of metric m
ProjectSum(m) == Sigma([c \in Discovered |-> Original(c, m)], Discovered)

\* the metrics other than target whose project-wide sum is not zero
Weighting(target) == {m \in Metric \ {target} : ProjectSum(m).num # 0}

\* the share of class c in the project-wide sum of metric m, which is not 0
Share(c, m) ==
    Float(Original(c, m).num * ProjectSum(m).den, Original(c, m).den * ProjectSum(m).num)

\* C14: the weighted value of metric M of class i is M_i * w, where w is
\* the mean, over the other metrics of non-zero project-wide sum, of the
\* share of class i in the sum; there are k such metrics, k > 0
ThmC14_WeightedValue ==
    Aggregated =>
      \A i \in Discovered : \A M \in Metric :
        LET k == Cardinality(Weighting(M))
            shares == Sigma([m \in Weighting(M) |-> Share(i, m)], Weighting(M))
        IN  k > 0 =>
              Agg.weighted_metrics[i][M] (.) [num |-> k, den |-> 1]
                = Original(i, M) (.) shares

\* a class whose weighted WMC is neither 0 nor its WMC, in a project where
\* a metric is skipped and the WMC of another class is not 0
WitC14_WeightedWmc ==
    /\ Aggregated
    /\ \E i, j \in Discovered :
         /\ i # j /\ Summary(j).wmc > 0
         /\ Cardinality(Weighting("wmc")) \in 1..5
         /\ Agg.weighted_metrics[i].wmc.num # 0
         /\ Agg.weighted_metrics[i].wmc # Original(i, "wmc")

\* C15: get_aggregated_metrics never raises ZeroDivisionError; a metric
\* whose other metrics all have the project-wide sum 0 keeps its original
\* value, so a project whose sums are all 0 keeps all its values
ThmC15_NoDivisionByZero ==
    aggregated # <<>> =>
      /\ aggregated[1].raised # "ZeroDivisionError"
      /\ Aggregated =>
           \A i \in Discovered : \A M \in Metric :
             /\ Agg.weighted_metrics[i][M].den > 0
             /\ Weighting(M) = {} => Agg.weighted_metrics[i][M] = Original(i, M)

\* a project of at least one class whose sums are all 0
WitC15_AllSumsZero ==
    /\ Aggregated
    /\ Discovered # {}
    /\ \A M \in Metric : ProjectSum(M).num = 0
    /\ \A i \in Discovered : \A M \in Metric :
         Agg.weighted_metrics[i][M] = Original(i, M)

KthSmallest(m, k) ==
    CHOOSE x \in {Original(c, m) : c \in Discovered} :
      /\ Cardinality({c \in Discovered : Original(c, m) \prec x}) <= k - 1
      /\ Cardinality({c \in Discovered : ~(x \prec Original(c, m))}) >= k

\* C17: mean_metrics and median_metrics are, metric by metric, the mean and
\* the median of the original values of that metric over all classes
ThmC17_MeanMedianOfOriginals ==
    Aggregated =>
      \A M \in Metric :
        LET n == Cardinality(Discovered)
        IN  /\ Agg.mean_metrics[M] (.) [num |-> n, den |-> 1] = ProjectSum(M)
            /\ n % 2 = 1 => Agg.median_metrics[M] = KthSmallest(M, (n + 1) \div 2)
            /\ n % 2 = 0 =>
                 Agg.median_metrics[M] (.) [num |-> 2, den |-> 1]
                   = KthSmallest(M, n \div 2) (+) KthSmallest(M, (n \div 2) + 1)

\* two classes whose median WMC lies between their values, while the
\* weighting changed the WMC of one of them
WitC17_MedianBetween ==
    /\ Aggregated
    /\ Cardinality(Discovered) = 2
    /\ Agg.median_metrics.wmc.den = 2
    /\ Agg.mean_metrics.wmc = Agg.median_metrics.wmc
    /\ \E c \in Discovered : Agg.weighted_metrics[c].wmc # Original(c, "wmc")

\* C18: get_aggregated_metrics returns, whatever the project
CexC18_AggregationReturns == aggregated # <<>> => aggregated[1].raised = ""

\* C19: original_metrics and weighted_metrics have the classes of
\* class_summary as keys, original_metrics holds the seven metrics of
\* class_summary as they are, and the metrics handed over are still those
\* calculate_metrics returned
ThmC19_OriginalIsProjection ==
    Aggregated =>
      /\ DOMAIN Agg.original_metrics = DOMAIN Metrics.class_summary
      /\ DOMAIN Agg.weighted_metrics = DOMAIN Metrics.class_summary
      /\ \A c \in DOMAIN Metrics.class_summary :
           /\ DOMAIN Agg.original_metrics[c] = Metric
           /\ \A M \in Metric : Agg.original_metrics[c][M] = Metrics.class_summary[c][M]
      /\ Metrics = project_metrics

\* a project of several classes where a class has a DIT that is not its
\* NOC and a weighted value that is not the original
WitC19_SeveralClasses ==
    /\ Aggregated
    /\ Cardinality(DOMAIN Agg.original_metrics) > 1
    /\ \E c \in Discovered :
         /\ Agg.original_metrics[c].dit = 1 /\ Agg.original_metrics[c].noc = 0
         /\ Agg.weighted_metrics[c].dit # Original(c, "dit")

(***************************************************************************)
(* The class filter.                                                       *)
(***************************************************************************)
\* the classes found in the files that the filter lets through
Modelled ==
    IF class_filter = <<>> THEN DOMAIN parsed
    ELSE {n \in DOMAIN parsed : n \in class_filter[1]}

\* the classes found in the files that the filter skips
Skipped == DOMAIN parsed \ Modelled

\* the bases class n declares, object left out
DeclaredBases(n) ==
    {parsed[n].bases[i].id : i \in {j \in DOMAIN parsed[n].bases :
                                      parsed[n].bases[j].kind = "Name"}} \ {"object"}

\* the names a method of class n calls, and those it calls through
DeclaredCalls(n) ==
    UNION {visit_Call_method_calls(x) :
             x \in UNION {parsed[n].body[i].nodes : i \in DOMAIN parsed[n].body}}

DeclaredReceivers(n) ==
    UNION {visit_Call_classes(x) :
             x \in UNION {parsed[n].body[i].nodes : i \in DOMAIN parsed[n].body}}

DeclaredAttributes(n) ==
    UNION {assigned_names(parsed[n].body[i].targets) : i \in DOMAIN parsed[n].body}

ThmC21_SyntaxErrorSkipsFile ==
    [][printed' # printed =>
         /\ \E file_path \in printed' \ printed : printed' = printed \cup {file_path}
         /\ UNCHANGED <<classes, inheritance_graph, file_paths>>]_vars

\* the first file had a syntax error and was reported, the class of the
\* second file is in the class table and has its metrics
WitC21_LaterFileContributes ==
    /\ Returned
    /\ printed = {DirFile(1)}
    /\ \E c \in Discovered :
         /\ file_paths[c] = DirFile(2)
         /\ c \in DOMAIN Metrics.class_summary
         /\ DirFile(2) \in DOMAIN Metrics.files
    /\ DirFile(1) \notin DOMAIN Metrics.files

(***************************************************************************)
(* The nodes of the inheritance graph.                                     *)
(***************************************************************************)
\* the bases, object left out, of the class records
RecordedBases == UNION {Range(classes[c].bases) : c \in Discovered} \ {"object"}

BodyAssignedNames(c) ==
    LET body == parsed[c].body
        assignments == {i \in DOMAIN body : body[i].kind \in {"Assign", "AnnAssign"}}
    IN  UNION {{body[i].targets[j].id :
                  j \in {k \in DOMAIN body[i].targets : body[i].targets[k].kind = "Name"}} :
               i \in assignments}

\* the attributes x that a method of c assigns as self.x = ...
SelfAssignedInMethods(c) ==
    LET body == parsed[c].body
        methods == {i \in DOMAIN body : body[i].kind = "FunctionDef"}
    IN  UNION {{n.func.attr : n \in {s \in body[i].nodes :
                                       /\ s.kind = "Store"
                                       /\ s.func.kind = "Attribute"
                                       /\ s.func.vkind = "Name"
                                       /\ s.func.vid = "self"}} :
               i \in methods}

\* C23 as stated: the attributes of a class record contain every name
\* assigned directly in the class body and every attribute assigned as
\* self.x = ... inside a method of the class
CexC23_AttributesOfBodyAndMethods ==
    \A c \in Discovered :
      BodyAssignedNames(c) \cup SelfAssignedInMethods(c) \subseteq classes[c].attributes

(***************************************************************************)
(* calculate_metrics and the model.                                        *)
(***************************************************************************)
\* C24: a step after which there is a result (calculate_metrics, called
\* for the first time or again) leaves the class records, the inheritance
\* graph and the class-to-file index as they were, and when there was a
\* result before, the result is equal to it
ThmC24_CalculateLeavesModel ==
    [][result' # <<>> =>
         /\ UNCHANGED <<classes, inheritance_graph, file_paths>>
         /\ result # <<>> => result' = result]_vars

\* metrics were returned for a model of two classes and an inheritance
\* edge, and calculate_metrics run now returns the same
WitC24_ResultOfUnchangedModel ==
    /\ Returned
    /\ Cardinality(Discovered) >= 2
    /\ inheritance_graph.edges # {}
    /\ DOMAIN Metrics.class_summary = Discovered
    /\ Metrics = project_metrics

(***************************************************************************)
(* Cycles of declared bases.                                               *)
(***************************************************************************)
\* the nodes reached from the nodes S along inheritance edges, S included
RECURSIVE Descendants(_)
Descendants(S) ==
    LET T == S \cup UNION {successors(inheritance_graph, n) : n \in S}
    IN  IF T = S THEN S ELSE Descendants(T)

BelowRoot == Descendants(graph_roots(inheritance_graph))

\* n lies on a cycle of inheritance edges
OnCycle(n) == n \in Descendants(successors(inheritance_graph, n))

\* C25: for every inheritance graph, cyclic ones included, the DIT
\* computation ends with a depth between 0 and the number of other nodes;
\* a class that no root reaches, as the classes of a cycle without a root
\* above it, has DIT 0
ThmC25_DitEndsOnCycles ==
    /\ \A c \in Discovered :
         /\ _calculate_dit(c) \in 0..(Cardinality(inheritance_graph.nodes) - 1)
         /\ c \notin BelowRoot => _calculate_dit(c) = 0
    /\ Returned =>
         \A c \in Discovered : c \notin BelowRoot => Summary(c).dit = 0

\* A(B) and B(A) were extracted, the graph has no root, both have DIT 0
WitC25_TwoCycleWithoutRoot ==
    /\ Returned
    /\ {"A", "B"} \subseteq Discovered
    /\ {<<"A", "B">>, <<"B", "A">>} \subseteq inheritance_graph.edges
    /\ OnCycle("A") /\ OnCycle("B")
    /\ graph_roots(inheritance_graph) = {}
    /\ Summary("A").dit = 0 /\ Summary("B").dit = 0

(***************************************************************************)
(* The bundle returned by calculate_metrics.                               *)
(***************************************************************************)
\* the file entries of the bundle that list class c
FilesListing(c) == {f \in DOMAIN Metrics.files : c \in DOMAIN Metrics.files[f].classes}

\* C26: in the bundle returned by calculate_metrics every class of
\* class_summary is listed under exactly one file entry, the file the
\* class-to-file index records for it, with the same metric record as in
\* class_summary, and the classes of all file entries together are the
\* keys of class_summary
ThmC26_FilesPartitionSummary ==
    Returned =>
      /\ \A c \in DOMAIN Metrics.class_summary :
           /\ FilesListing(c) = {file_paths[c]}
           /\ Metrics.files[file_paths[c]].classes[c] = Summary(c)
      /\ UNION {DOMAIN Metrics.files[f].classes : f \in DOMAIN Metrics.files}
           = DOMAIN Metrics.class_summary

\* a bundle of two files; class A, defined in the first file and again in
\* the third, is listed under the third only
WitC26_RedefinedInLaterFile ==
    /\ Returned
    /\ DOMAIN Metrics.files = {DirFile(2), DirFile(3)}
    /\ ndefs = 3
    /\ FilesListing("A") = {DirFile(3)}
    /\ Cardinality(DOMAIN Metrics.class_summary) = 2

(***************************************************************************)
(* Inheritance edges after a class name is defined again.                  *)
(***************************************************************************)
\* C27 as stated: the inheritance edges into each discovered class come
\* from exactly the bases of its current class record, object left out,
\* also after a class name was defined more than once
CexC27_EdgesOfCurrentRecord ==
    \A c \in Discovered : InEdges(c) = Range(classes[c].bases) \ {"object"}

(***************************************************************************)
(* The range of LCOM4 and of its normalised value.                         *)
(***************************************************************************)
\* no method of class c is joined to another one
AllIsolated(c) == \A m, n \in classes[c].methods : m # n => ~Joined(c, m, n)

\* C29: a class with at least one method has an LCOM4 between 1 and the
\* number of its methods; the normalised LCOM4 of every class lies between
\* 0 and 1, is 0 exactly when the methods form no more than one component,
\* and is 1 exactly when there are at least two methods and every method
\* is isolated
ThmC29_Lcom4Range ==
    Returned =>
      \A c \in Discovered :
        LET count == Cardinality(classes[c].methods)
            norm == Summary(c).lcom4_normalized
        IN  /\ count >= 1 => (1 <= Summary(c).lcom4 /\ Summary(c).lcom4 <= count)
            /\ norm.den > 0 /\ 0 <= norm.num /\ norm.num <= norm.den
            /\ norm.num = 0 <=> Cardinality(Components(c)) <= 1
            /\ norm.num = norm.den <=> (count >= 2 /\ AllIsolated(c))

\* three methods, each on an attribute of its own: LCOM4 3, normalised 1
WitC29_ThreeIsolatedMethods ==
    /\ Returned
    /\ \E c \in Discovered :
         /\ Cardinality(classes[c].methods) = 3
         /\ AllIsolated(c)
         /\ \A m \in classes[c].methods : classes[c].method_attrs[m] # {}
         /\ Summary(c).lcom4 = 3
         /\ Summary(c).lcom4_normalized = [num |-> 1, den |-> 1]

(***************************************************************************)
(* The order of extraction.                                                *)
(***************************************************************************)
\* the class record of the declaration of c, whenever it was extracted
DeclaredRecord(c) ==
    process_body(ClassInfo(c, base_names(parsed[c].bases)), parsed[c].body)

\* the inheritance edges the declarations name, whatever their order
DeclaredEdges ==
    {e \in (UNION {Range(base_names(parsed[c].bases)) : c \in DOMAIN parsed}
              \ {"object"}) \X DOMAIN parsed :
       e[1] \in Range(base_names(parsed[e[2]].bases))}

\* C30: when no class name was defined twice, the class table and the
\* inheritance graph are determined by the set of declarations, not by the
\* order of their extraction, and so are the per-class metric records that
\* calculate_metrics returns
ThmC30_OrderOfExtraction ==
    NoRedefinition =>
      /\ classes = [c \in DOMAIN parsed |-> DeclaredRecord(c)]
      /\ inheritance_graph.edges = DeclaredEdges
      /\ inheritance_graph.nodes =
           DOMAIN parsed \cup {e[1] : e \in DeclaredEdges}
      /\ Returned => Metrics.class_summary = project_metrics.class_summary

\* the derived class B(A) came in the first file and its base A in the
\* second; B has DIT 1 and A has NOC 1 as in the other order
WitC30_DerivedBeforeBase ==
    /\ Returned
    /\ NoRedefinition
    /\ {"A", "B"} \subseteq Discovered
    /\ file_paths["B"] = DirFile(1)
    /\ file_paths["A"] = DirFile(2)
    /\ classes["B"].bases = <<"A">>
    /\ classes["A"].bases = <<>>
    /\ Summary("B").dit = 1
    /\ Summary("A").noc = 1

\* the orders in which class_summary may yield the classes of the result
ClassOrders ==
    LET D == DOMAIN result[1].class_summary
    IN  {names \in [1..Cardinality(D) -> D] : Range(names) = D}

\* the sums of the metrics over the project that combine_metrics may
\* compute, one for each order of the classes
MetricSums ==
    {metric_sums_binary64(result[1].class_summary, names) : names \in ClassOrders}

\* the sum, without rounding, of the weights that combine_metrics computes
\* for target_metric, over the classes
WeightTotal(sums, target_metric) ==
    LET names == SetToSeq(DOMAIN result[1].class_summary)
    IN  DSum([i \in DOMAIN names |->
                avg_weight_binary64(result[1].class_summary[names[i]], target_metric, sums)])

\* a metric other than target_metric has a non-zero sum over the project
OtherMetricCounts(target_metric) ==
    \E m \in Range(ck_metrics) \ {target_metric} :
      \E c \in DOMAIN Agg.original_metrics : Agg.original_metrics[c][m] # BOfInt(0)

\* the least and the greatest original value of a metric
MinOriginal(metric) ==
    LET S == {Agg.original_metrics[c][metric] : c \in DOMAIN Agg.original_metrics}
    IN  CHOOSE x \in S : \A y \in S : ~BLess(y, x)

MaxOriginal(metric) ==
    LET S == {Agg.original_metrics[c][metric] : c \in DOMAIN Agg.original_metrics}
    IN  CHOOSE x \in S : \A y \in S : ~BLess(x, y)

\* 1 - (2n + 7) / 2^53 and 1 + (2n + 7) / 2^53: what the roundings of the
\* divisions, the additions and the multiplication of the weighting of n
\* classes can take from or add to a result
RoundedDown(n) == Binary64(NSub(NShl(<<1>>, 53), NOfInt(2 * n + 7)), 0 - 53)

RoundedUp(n) == Binary64(NAdd(NShl(<<1>>, 53), NOfInt(2 * n + 7)), 0 - 53)

\* C28 as stated: for a target metric with another metric of non-zero sum,
\* the weights of the classes sum to exactly 1 and the combined weighted
\* value lies between the least and the greatest original value
CexC28_WeightsSumToOne ==
    Aggregated =>
      \A t \in Range(ck_metrics) :
        OtherMetricCounts(t) =>
          /\ \A sums \in MetricSums : WeightTotal(sums, t) = BOfInt(1)
          /\ ~BLess(Agg.weighted_metrics_combined[t], MinOriginal(t))
          /\ ~BLess(MaxOriginal(t), Agg.weighted_metrics_combined[t])

\* C28: for a target metric with another metric of non-zero sum, the
\* weights of the n classes sum to 1 and the combined weighted value lies
\* between the least and the greatest original value when nothing is rounded;
\* as floats, the weights sum to a value within (2n + 7) / 2^53 of 1 and the
\* combined value is at least the least original value times
\* 1 - (2n + 7) / 2^53 and at most the greatest times 1 + (2n + 7) / 2^53
ThmC28_WeightsSumToOneRounded ==
    Aggregated =>
      LET n == Cardinality(DOMAIN result[1].class_summary)
          exact == metric_sums(result[1].class_summary)
          weighted == calculate_weighted_metrics_combined(combine_metrics(result[1]))
          original(t) == {number(result[1].class_summary[c], t) :
                            c \in DOMAIN result[1].class_summary}
      IN  \A t \in Range(ck_metrics) :
            OtherMetricCounts(t) =>
              /\ valid_metrics(t, exact) # {}
              /\ FSum([i \in DOMAIN SetToSeq(DOMAIN result[1].class_summary) |->
                         avg_weight(result[1].class_summary[
                                      SetToSeq(DOMAIN result[1].class_summary)[i]],
                                    t, exact)]) = Float(1, 1)
              /\ \E lo \in original(t) : ~FLess(weighted[t], lo)
              /\ \E hi \in original(t) : ~FLess(hi, weighted[t])
              /\ \A sums \in MetricSums :
                   \A total \in {WeightTotal(sums, t)} :
                     ~BLess(total, RoundedDown(n)) /\ ~BLess(RoundedUp(n), total)
              /\ ~BLess(Agg.weighted_metrics_combined[t],
                        DMul(MinOriginal(t), RoundedDown(n)))
              /\ ~BLess(DMul(MaxOriginal(t), RoundedUp(n)),
                        Agg.weighted_metrics_combined[t])

\* a project of three classes has been aggregated, and the combined
\* weighted value of a metric is less than each original value of it
WitC28_CombinedBelowLeast ==
    /\ Aggregated
    /\ Cardinality(DOMAIN result[1].class_summary) = 3
    /\ \E t \in Range(ck_metrics) :
         /\ OtherMetricCounts(t)
         /\ BLess(Agg.weighted_metrics_combined[t], MinOriginal(t))

====
